---------------------------- MODULE Spec2Model ----------------------------
(***************************************************************************)
(* Frame sampling engine of runanalysis.ai.                                *)
(*                                                                         *)
(* Spec : the app extractor (second VideoFrameExtractor class of           *)
(*        src/public/js/video-utils-new.js, lines 361-1084), one extractor *)
(*        instance driven by its caller (extractFrames, cancel, cleanup,   *)
(*        reset), by the media decoder (loadedmetadata/loadeddata/canplay, *)
(*        seeked, error) and by timers (load timeout, start delay, seek    *)
(*        timeout, animation frame, image load, inter-frame delay).        *)
(*                                                                         *)
(* Every action is one task of the browser's event loop: the handler and   *)
(* all promise reactions (microtasks) it triggers run to the next          *)
(* suspension point before any other task can run.                         *)
(*                                                                         *)
(* Times are integers in milliseconds.                                     *)
(***************************************************************************)
EXTENDS Integers, Sequences, FiniteSets, TLC

\* ------------------------------------------------------------- bounds ---
\* A behaviour is either one run of the extractor with any number of
\* disturbances, or up to MaxRuns runs with up to MaxDisturbances of them.
\* A disturbance is a caller's cancel(), cleanup() or reset(), a decoder
\* error, or a load so slow that the 5 s load timeout finds the video not
\* ready.
MaxRuns == 2
MaxDisturbances == 1

\* ---------------------------------------------------- program constants ---
frameRate == 2
maxDuration == 30000
\* the 0.01 s "already at the target time" window of seekToTime
seekEpsilon == 10
\* readyState HAVE_CURRENT_DATA, the threshold of loadTimeout and seekToTime
HAVE_CURRENT_DATA == 2
\* readyState HAVE_FUTURE_DATA, reached when canplay is fired
HAVE_FUTURE_DATA == 3

\* null / undefined
Null == "null"
\* the number NaN (video.duration before metadata is known); every
\* arithmetic helper below treats it as JavaScript does
NaN == -1

\* ------------------------------------------------------- inputs (files) ---
\* durations (ms) of the video files handed to extractFrames
Durations == {0, 1000}
\* video.seekable of a loaded file: no ranges, or one range [0, 300]
SeekableChoices == { <<>>, <<[start |-> 0, end |-> 300]>> }

Runs == 1..MaxRuns
\* a run starts at most two capture sequences: 1 from the canplay listener,
\* 2 from the load timeout
SeqIds == {1, 2}

\* ------------------------------------------------------ JS arithmetic ---
IsNaN(x) == x = NaN

\* Math.min(a, b)
MathMin(a, b) == IF IsNaN(a) \/ IsNaN(b) THEN NaN ELSE IF a <= b THEN a ELSE b

\* a >= b, a < b on numbers (false when either is NaN)
NumGE(a, b) == ~IsNaN(a) /\ ~IsNaN(b) /\ a >= b
NumLT(a, b) == ~IsNaN(a) /\ ~IsNaN(b) /\ a < b

Abs(x) == IF x < 0 THEN -x ELSE x

\* Math.abs(a - b) < eps
NumNear(a, b, eps) == ~IsNaN(a) /\ ~IsNaN(b) /\ Abs(a - b) < eps

\* Math.ceil(duration * this.frameRate), duration in ms
TotalFrames(duration) ==
  IF IsNaN(duration) THEN NaN ELSE (duration * frameRate + 999) \div 1000

\* frameInterval = 1 / this.frameRate, in ms
frameInterval == 1000 \div frameRate

\* targetTime = Math.min(startFrame * frameInterval, duration)
TargetTime(startFrame, duration) == MathMin(startFrame * frameInterval, duration)


\* ------------------------------------------------- the video element ---
\* A media element as the extractor sees it.  src = the run whose file it
\* is loading (0: no source), readyState 0..3 (HAVE_NOTHING, HAVE_METADATA,
\* HAVE_CURRENT_DATA, HAVE_FUTURE_DATA or more), seeking = a seek is under
\* way, error = the element has fired its error event.  isNull = the field
\* this.video holds null (the other fields then mean nothing).
NewVideo ==
  [isNull |-> FALSE, src |-> 0, readyState |-> 0, currentTime |-> 0,
   seeking |-> FALSE, error |-> FALSE]

NullVideo == [NewVideo EXCEPT !.isNull = TRUE]

\* video.duration: NaN until the metadata is known
VideoDuration(v, files) ==
  IF v.src # 0 /\ v.readyState >= 1 THEN files[v.src].duration ELSE NaN

\* video.seekable: empty until the metadata is known
VideoSeekable(v, files) ==
  IF v.src # 0 /\ v.readyState >= 1 THEN files[v.src].seekable ELSE <<>>

\* the loop of getNearestSeekableTime over the ranges from index i on;
\* acc = [found, minDistance, nearestTime]; found = FALSE stands for
\* minDistance = Infinity, nearestTime = null
RECURSIVE NearestLoop(_, _, _, _)
NearestLoop(ranges, i, targetTime, acc) ==
  IF i > Len(ranges) THEN acc
  ELSE
    LET range == ranges[i]
        Closer(d, a) ==
          ~IsNaN(targetTime) /\ (~a.found \/ d < a.minDistance)
        startDist == Abs(range.start - targetTime)
        a1 == IF Closer(startDist, acc)
              THEN [found |-> TRUE, minDistance |-> startDist,
                    nearestTime |-> range.start]
              ELSE acc
        endDist == Abs(range.end - targetTime)
        a2 == IF Closer(endDist, a1)
              THEN [found |-> TRUE, minDistance |-> endDist,
                    nearestTime |-> range.end]
              ELSE a1
    IN NearestLoop(ranges, i + 1, targetTime, a2)

\* the start of the first range in place of the nearest point
getFirstSeekableTime(ranges, targetTime) ==
  IF Len(ranges) = 0 THEN targetTime ELSE ranges[1].start

\* getNearestSeekableTime(targetTime) for a non-null video whose seekable
\* ranges are `ranges`
getNearestSeekableTime(ranges, targetTime) ==
  IF Len(ranges) = 0 THEN targetTime
  ELSE IF \E i \in 1..Len(ranges) :
            NumGE(targetTime, ranges[i].start) /\ NumGE(ranges[i].end, targetTime)
       THEN targetTime
  ELSE LET acc == NearestLoop(ranges, 1, targetTime,
                              [found |-> FALSE, minDistance |-> 0,
                               nearestTime |-> 0])
       IN IF acc.found THEN acc.nearestTime ELSE targetTime

\* ------------------------------------------------------------- state ---
VARIABLES
  extractor,   \* the fields of the VideoFrameExtractor instance
  files,       \* files[r]: the video file handed to the r-th accepted call
  runs,        \* runs[r]: listeners, timers, promise and capture sequences
               \* of the r-th accepted extractFrames call
  observed,    \* observed[r]: what run r has delivered to the observers
  nruns,       \* number of extractFrames calls accepted so far
  budget,      \* what the surroundings may still do in this behaviour
  alreadyInProgress, \* some extractFrames call threw 'Extraction already
                     \* in progress'
  planner,     \* the timestamp plan of one extraction, as it is computed
  standalone,  \* the standalone extractor and its run
  batch,       \* the server's extractVideoFrames calls and their directory
  nearest,     \* one call of getNearestSeekableTime and what it returned
  analysis,    \* the page: analyzeFile invocations, the overlay, the user
  request      \* one POST /api/analyze request on the server

appVars == <<extractor, files, runs, observed, nruns, budget,
             alreadyInProgress>>
vars == <<appVars, planner, standalone, batch, nearest, analysis, request>>

\* the parts of the system a specification does not exercise
NoPlanner == [variant |-> "none"]
NoStandalone == [pc |-> "none"]
NoBatch == [pc |-> "none"]
NoNearest == [pc |-> "none"]
NoAnalysis == [pc |-> "none"]
NoRequest == [pc |-> "none"]
\* the page and the request handler are not exercised
OthersIdle == analysis = NoAnalysis /\ request = NoRequest

Budgets ==
  { [runs |-> 1, limited |-> FALSE, disturbances |-> 0],
    [runs |-> MaxRuns, limited |-> TRUE, disturbances |-> MaxDisturbances] }

\* one more disturbance, where the budget has room for it
Disturb ==
  /\ budget.limited => budget.disturbances > 0
  /\ budget' = IF budget.limited
               THEN [budget EXCEPT !.disturbances = @ - 1]
               ELSE budget

\* this.currentExtraction as extractFrames creates it; reject is never
\* assigned anywhere in the class, so cancel() finds none to call
NewExtraction == [cancelled |-> FALSE, reject |-> Null]

NoSeq ==
  [pc |-> "none", startFrame |-> 0, duration |-> 0, seekTime |-> 0,
   listening |-> FALSE]

NoRun ==
  [canplayListener |-> FALSE, errorListener |-> FALSE, loadTimeout |-> FALSE,
   promise |-> "none", seqs |-> [k \in SeqIds |-> NoSeq]]

NoFile == [duration |-> 0, seekable |-> <<>>]

NothingObserved ==
  [progress |-> <<>>, nComplete |-> 0, nError |-> 0, result |-> <<>>,
   cancelRequested |-> "no", loadError |-> FALSE]

\* the constructor, lines 362-392
Constructed ==
  /\ extractor = [video |-> NullVideo, canvas |-> Null, ctx |-> Null,
                  videoUrl |-> 0, frames |-> <<>>, previewFrames |-> <<>>,
                  isProcessing |-> FALSE, currentExtraction |-> NewExtraction]
  /\ files = [r \in Runs |-> NoFile]
  /\ runs = [r \in Runs |-> NoRun]
  /\ observed = [r \in Runs |-> NothingObserved]
  /\ nruns = 0
  /\ alreadyInProgress = FALSE

Init ==
  /\ Constructed
  /\ budget \in Budgets
  /\ planner = NoPlanner
  /\ standalone = NoStandalone
  /\ batch = NoBatch
  /\ nearest = NoNearest
  /\ OthersIdle

\* the app extractor constructed and never called
AppUnused ==
  /\ Constructed
  /\ budget = [runs |-> 0, limited |-> TRUE, disturbances |-> 0]

\* The state a handler works on, and the state it leaves
World == [ex |-> extractor, files |-> files, runs |-> runs, obs |-> observed]

Commit(W) ==
  /\ extractor' = W.ex
  /\ files' = W.files
  /\ runs' = W.runs
  /\ observed' = W.obs
  /\ UNCHANGED <<planner, standalone, batch, nearest, analysis, request>>

\* ------------------------------------- the capture sequence of a run ---
\* the .then of extractFrameSequence in onCanPlay
OnSequenceDone(W, r) ==
  IF ~W.ex.currentExtraction.cancelled
  THEN [W EXCEPT !.ex.isProcessing = FALSE,
                 !.obs[r].nComplete = @ + 1,
                 !.obs[r].result = W.ex.frames,
                 !.runs[r].promise = IF @ = "pending" THEN "resolved" ELSE @]
  ELSE W

\* the .catch of extractFrameSequence in onCanPlay
OnSequenceError(W, r) ==
  LET W1 == [W EXCEPT !.ex.isProcessing = FALSE]
  IN IF ~W1.ex.currentExtraction.cancelled
     THEN [W1 EXCEPT !.obs[r].nError = @ + 1,
                     !.runs[r].promise = IF @ = "pending" THEN "rejected" ELSE @]
     ELSE W1

SeqFinished(W, r, k) ==
  [W EXCEPT !.runs[r].seqs[k].pc = "done",
            !.runs[r].seqs[k].listening = FALSE]

\* the promise of extractFrameSequence resolves / rejects
SeqResolved(W, r, k) == OnSequenceDone(SeqFinished(W, r, k), r)
SeqRejected(W, r, k) == OnSequenceError(SeqFinished(W, r, k), r)

\* seekToTime(targetTime) up to its first suspension
seekToTime(W, r, k, targetTime) ==
  LET v == W.ex.video
  IN IF v.isNull
     THEN SeqRejected(W, r, k)
     ELSE IF NumNear(v.currentTime, targetTime, seekEpsilon)
     THEN [W EXCEPT !.runs[r].seqs[k].pc = "raf"]
     ELSE IF W.ex.currentExtraction.cancelled
     THEN SeqRejected(W, r, k)
     ELSE IF v.readyState < HAVE_CURRENT_DATA
     THEN [W EXCEPT !.runs[r].seqs[k].pc = "loadedWait",
                    !.runs[r].seqs[k].seekTime = targetTime,
                    !.runs[r].seqs[k].listening = TRUE]
     ELSE IF IsNaN(targetTime)
     THEN \* video.currentTime = NaN throws; caught: cleanup(), reject(error)
          SeqRejected(W, r, k)
     ELSE [W EXCEPT !.runs[r].seqs[k].pc = "seekWait",
                    !.runs[r].seqs[k].listening = TRUE,
                    !.ex.video.currentTime = targetTime,
                    !.ex.video.seeking = TRUE]

\* extractFrame(targetTime) up to its first suspension
extractFrame(W, r, k, targetTime) ==
  IF W.ex.video.isNull
  THEN SeqRejected(W, r, k)
  ELSE LET W1 == IF W.ex.canvas = Null
                 THEN [W EXCEPT !.ex.canvas = "canvas", !.ex.ctx = "ctx"]
                 ELSE W
           seekTime == getNearestSeekableTime(
                         VideoSeekable(W.ex.video, W.files), targetTime)
       IN seekToTime(W1, r, k, seekTime)

\* extractFrameSequence(startFrame, totalFrames, frameInterval, duration)
\* up to its first suspension
extractFrameSequence(W, r, k, startFrame) ==
  LET duration == W.runs[r].seqs[k].duration
      totalFrames == TotalFrames(duration)
  IN IF NumGE(startFrame, totalFrames)
     THEN SeqResolved(W, r, k)
     ELSE extractFrame([W EXCEPT !.runs[r].seqs[k].startFrame = startFrame],
                       r, k, TargetTime(startFrame, duration))

\* extractFrame after the seek and the animation frame: paint and encode;
\* then extractFrameSequence up to the wait for the preview image.  A canvas
\* of height 0 encodes to "data:,", which the preview image never loads.
\* drawImage paints nothing while the video has no current frame
\* (readyState below HAVE_CURRENT_DATA): the cleared canvas is encoded.
captureFrame(W, r, k) ==
  IF W.ex.ctx = Null \/ W.ex.video.isNull \/ W.ex.canvas = Null
  THEN SeqRejected(W, r, k)
  ELSE [W EXCEPT !.ex.frames =
                    Append(@, [run |-> r,
                               index |-> W.runs[r].seqs[k].startFrame,
                               content |->
                                 IF W.ex.canvas = "empty" THEN "none"
                                 ELSE IF W.ex.video.readyState
                                           < HAVE_CURRENT_DATA
                                 THEN "zero" ELSE "painted"]),
                 !.runs[r].seqs[k].pc =
                    IF W.ex.canvas = "empty" THEN "imgNever" ELSE "imgLoad"]

\* extractFrameSequence after img.onload: preview, progress, next frame
reportProgress(W, r, k) ==
  LET s == W.runs[r].seqs[k]
      totalFrames == TotalFrames(s.duration)
      lastFrame == IF IsNaN(totalFrames) THEN NaN ELSE totalFrames - 1
      W1 == [W EXCEPT !.ex.previewFrames =
                         Append(@, [run |-> r, index |-> s.startFrame]),
                      !.obs[r].progress =
                         Append(@, [current |-> s.startFrame + 1,
                                    total |-> totalFrames])]
  IN IF ~W1.ex.currentExtraction.cancelled /\ NumLT(s.startFrame, lastFrame)
     THEN [W1 EXCEPT !.runs[r].seqs[k].pc = "delay"]
     ELSE SeqResolved(W1, r, k)

\* onCanPlay of run r, called by the canplay listener (k = 1) or by the
\* load timeout (k = 2)
onCanPlay(W, r, k) ==
  LET v == W.ex.video
  IN IF v.isNull \/ W.ex.canvas = Null
     THEN W    \* TypeError inside the handler: nothing is started
     ELSE [W EXCEPT \* videoWidth / videoHeight is NaN before the metadata is
                    \* known: the canvas gets height 0
                    !.ex.canvas = IF v.src # 0 /\ v.readyState >= 1
                                  THEN "canvas" ELSE "empty",
                    !.ex.video.currentTime = 0,
                    !.ex.video.seeking = (v.readyState >= 1 /\ ~v.error),
                    !.runs[r].seqs[k] =
                       [NoSeq EXCEPT !.pc = "startDelay",
                                     !.duration =
                                        MathMin(VideoDuration(v, W.files),
                                                maxDuration)]]

\* onError of run r, the error listener of extractFrames
onError(W, r) ==
  [W EXCEPT !.ex.isProcessing = FALSE,
            !.obs[r].nError = @ + 1,
            !.obs[r].loadError = TRUE,
            !.runs[r].promise = IF @ = "pending" THEN "rejected" ELSE @]

\* ------------------------------------------------ caller operations ---
\* cancel().  The request is noted for every run whose promise is
\* unsettled, with where the run was when it was first made: in its capture
\* loop ("capturing": a capture sequence waits for a seek, for the video,
\* for the animation frame, for the preview image or for the inter-frame
\* delay) or not ("loading").
cancel(W) ==
  [W EXCEPT !.ex.currentExtraction.cancelled = TRUE,
            !.ex.isProcessing = FALSE,
            !.obs = [r \in Runs |->
                       IF W.runs[r].promise = "pending"
                          /\ @[r].cancelRequested = "no"
                       THEN [@[r] EXCEPT !.cancelRequested =
                               IF \E k \in SeqIds :
                                    W.runs[r].seqs[k].pc \in
                                      {"loadedWait", "seekWait", "raf",
                                       "imgLoad", "imgNever", "delay"}
                               THEN "capturing"
                               ELSE "loading"]
                       ELSE @[r]]]

\* cleanup().  The element it lets go of has its source removed and is
\* reloaded empty: it fires no further canplay, loadeddata, seeked or error
\* event, so the listeners still registered on it are never called.
cleanup(W) ==
  LET W1 == cancel(W)
      hadVideo == ~W1.ex.video.isNull
  IN [W1 EXCEPT !.ex.video = NullVideo,
                !.ex.videoUrl = 0,
                !.ex.isProcessing = FALSE,
                !.ex.canvas = Null,
                !.ex.ctx = Null,
                !.ex.frames = <<>>,
                !.ex.previewFrames = <<>>,
                !.runs = [r \in Runs |->
                   IF hadVideo
                   THEN [@[r] EXCEPT
                           !.canplayListener = FALSE,
                           !.errorListener = FALSE,
                           !.seqs = [k \in SeqIds |->
                                       [@[k] EXCEPT !.listening = FALSE]]]
                   ELSE @[r]]]

\* reset()
reset(W) ==
  LET W1 == cancel(W)
      W2 == [W1 EXCEPT !.ex.frames = <<>>,
                       !.ex.previewFrames = <<>>,
                       !.ex.isProcessing = FALSE,
                       !.ex.currentExtraction = NewExtraction]
      W3 == cleanup(W2)
  IN [W3 EXCEPT !.ex.video = NewVideo,
                !.ex.canvas = "canvas",
                !.ex.ctx = "ctx"]

\* extractFrames(file) accepted: the body up to the return of the promise
extractFrames(W, r, file) ==
  [W EXCEPT !.ex.isProcessing = TRUE,
            !.ex.frames = <<>>,
            !.ex.previewFrames = <<>>,
            !.ex.currentExtraction = NewExtraction,
            !.ex.canvas = IF @ = Null THEN "canvas" ELSE @,
            !.ex.ctx = "ctx",
            !.ex.videoUrl = r,
            \* video.src = this.videoUrl; video.load()
            !.ex.video = [NewVideo EXCEPT !.src = r],
            !.files[r] = file,
            !.runs[r] = [NoRun EXCEPT !.canplayListener = TRUE,
                                      !.errorListener = TRUE,
                                      !.loadTimeout = TRUE,
                                      !.promise = "pending"]]

\* the guard of extractFrames: the call throws 'Extraction already in
\* progress'
ThrowsAlreadyInProgress == extractor.isProcessing

ExtractFrames ==
  /\ ~ThrowsAlreadyInProgress
  /\ nruns < budget.runs
  /\ \E d \in Durations, sk \in SeekableChoices :
        Commit(extractFrames(World, nruns + 1,
                             [duration |-> d, seekable |-> sk]))
  /\ nruns' = nruns + 1
  /\ UNCHANGED <<budget, alreadyInProgress>>

\* extractFrames(file) while isProcessing: throws, nothing else happens
ExtractFramesBusy ==
  /\ ThrowsAlreadyInProgress
  /\ alreadyInProgress' = TRUE
  /\ UNCHANGED <<extractor, files, runs, observed, nruns, budget>>
  /\ UNCHANGED <<planner, standalone, batch, nearest, analysis, request>>

Cancel ==
  /\ Disturb
  /\ Commit(cancel(World))
  /\ UNCHANGED <<nruns, alreadyInProgress>>

Cleanup ==
  /\ Disturb
  /\ Commit(cleanup(World))
  /\ UNCHANGED <<nruns, alreadyInProgress>>

Reset ==
  /\ Disturb
  /\ Commit(reset(World))
  /\ UNCHANGED <<nruns, alreadyInProgress>>

\* ----------------------------------------------------- decoder events ---
\* slot n of 1..2*MaxRuns is capture sequence SlotSeq(n) of run SlotRun(n)
NSlots == 2 * MaxRuns
SlotRun(n) == (n + 1) \div 2
SlotSeq(n) == ((n - 1) % 2) + 1

\* canplay: the onCanPlay listeners and the listeners clearing loadTimeout
RECURSIVE FireCanPlay(_, _)
FireCanPlay(W, r) ==
  IF r > MaxRuns THEN W
  ELSE FireCanPlay(
         IF W.runs[r].canplayListener
         THEN onCanPlay([W EXCEPT !.runs[r].canplayListener = FALSE,
                                  !.runs[r].loadTimeout = FALSE], r, 1)
         ELSE W,
         r + 1)

\* loadeddata: onLoadedData of every seekToTime waiting for the video
RECURSIVE FireLoadedData(_, _)
FireLoadedData(W, n) ==
  IF n > NSlots THEN W
  ELSE LET r == SlotRun(n)
           k == SlotSeq(n)
           s == W.runs[r].seqs[k]
       IN FireLoadedData(
            IF s.pc = "loadedWait" /\ s.listening
            THEN seekToTime([W EXCEPT !.runs[r].seqs[k].listening = FALSE],
                            r, k, s.seekTime)
            ELSE W,
            n + 1)

\* seeked: onSeeked of every pending seek
RECURSIVE FireSeeked(_, _)
FireSeeked(W, n) ==
  IF n > NSlots THEN W
  ELSE LET r == SlotRun(n)
           k == SlotSeq(n)
           s == W.runs[r].seqs[k]
       IN FireSeeked(
            IF s.pc = "seekWait" /\ s.listening
            THEN [W EXCEPT !.runs[r].seqs[k].pc = "raf",
                           !.runs[r].seqs[k].listening = FALSE]
            ELSE W,
            n + 1)

\* error: onError of every run that still listens ...
RECURSIVE FireLoadError(_, _)
FireLoadError(W, r) ==
  IF r > MaxRuns THEN W
  ELSE FireLoadError(
         IF W.runs[r].errorListener
         THEN onError([W EXCEPT !.runs[r].errorListener = FALSE], r)
         ELSE W,
         r + 1)

\* ... and onError of every pending seek
RECURSIVE FireSeekError(_, _)
FireSeekError(W, n) ==
  IF n > NSlots THEN W
  ELSE LET r == SlotRun(n)
           k == SlotSeq(n)
           s == W.runs[r].seqs[k]
       IN FireSeekError(
            IF s.pc = "seekWait" /\ s.listening
            THEN SeqRejected(W, r, k)
            ELSE W,
            n + 1)

\* the decoder gets further with the source: loadedmetadata (1),
\* loadeddata (2), canplay (3)
DecoderAdvance ==
  LET v == extractor.video
  IN /\ ~v.isNull /\ v.src # 0 /\ ~v.error
     /\ v.readyState < HAVE_FUTURE_DATA
     /\ LET W1 == [World EXCEPT !.ex.video.readyState = @ + 1]
        IN Commit(IF W1.ex.video.readyState = HAVE_CURRENT_DATA
                  THEN FireLoadedData(W1, 1)
                  ELSE IF W1.ex.video.readyState = HAVE_FUTURE_DATA
                  THEN FireCanPlay(W1, 1)
                  ELSE W1)
     /\ UNCHANGED <<nruns, budget, alreadyInProgress>>

\* the decoder completes the seek under way
DecoderSeeked ==
  LET v == extractor.video
  IN /\ ~v.isNull /\ v.seeking /\ ~v.error
     /\ v.readyState >= HAVE_CURRENT_DATA
     /\ Commit(FireSeeked([World EXCEPT !.ex.video.seeking = FALSE], 1))
     /\ UNCHANGED <<nruns, budget, alreadyInProgress>>

\* the decoder fails on the source (while loading or later)
DecoderError ==
  LET v == extractor.video
  IN /\ ~v.isNull /\ v.src # 0 /\ ~v.error
     /\ Disturb
     /\ Commit(FireSeekError(
                 FireLoadError([World EXCEPT !.ex.video.error = TRUE,
                                             !.ex.video.seeking = FALSE], 1),
                 1))
     /\ UNCHANGED <<nruns, alreadyInProgress>>


\* --------------------------------------------------- timers and tasks ---
\* the 5 s loadTimeout of run r
LoadTimeout(r) ==
  /\ runs[r].loadTimeout
  /\ IF ~extractor.video.isNull
        /\ extractor.video.readyState < HAVE_CURRENT_DATA
     THEN Disturb
     ELSE UNCHANGED budget
  /\ LET W1 == [World EXCEPT !.runs[r].loadTimeout = FALSE]
     IN Commit(IF W1.ex.video.isNull
               THEN W1   \* this.video.readyState throws
               ELSE IF W1.ex.video.readyState < HAVE_CURRENT_DATA
               THEN onCanPlay(W1, r, 2)
               ELSE W1)
  /\ UNCHANGED <<nruns, alreadyInProgress>>

\* the 100 ms timer of onCanPlay: extractFrameSequence(0, ...)
StartDelay(r, k) ==
  /\ runs[r].seqs[k].pc = "startDelay"
  /\ Commit(extractFrameSequence(World, r, k, 0))
  /\ UNCHANGED <<nruns, budget, alreadyInProgress>>

\* the 2 s timer of seekToTime: resolve anyway
SeekTimeout(r, k) ==
  /\ runs[r].seqs[k].pc = "seekWait"
  /\ Commit([World EXCEPT !.runs[r].seqs[k].pc = "raf",
                          !.runs[r].seqs[k].listening = FALSE])
  /\ UNCHANGED <<nruns, budget, alreadyInProgress>>

\* requestAnimationFrame after the seek
AnimationFrame(r, k) ==
  /\ runs[r].seqs[k].pc = "raf"
  /\ Commit(captureFrame(World, r, k))
  /\ UNCHANGED <<nruns, budget, alreadyInProgress>>

\* img.onload of the preview image
ImageLoaded(r, k) ==
  /\ runs[r].seqs[k].pc = "imgLoad"
  /\ Commit(reportProgress(World, r, k))
  /\ UNCHANGED <<nruns, budget, alreadyInProgress>>

\* the 10 ms delay before the next frame
FrameDelay(r, k) ==
  /\ runs[r].seqs[k].pc = "delay"
  /\ Commit(extractFrameSequence(World, r, k,
                                 runs[r].seqs[k].startFrame + 1))
  /\ UNCHANGED <<nruns, budget, alreadyInProgress>>

Next ==
  \/ ExtractFrames
  \/ ExtractFramesBusy
  \/ Cancel
  \/ Cleanup
  \/ Reset
  \/ DecoderAdvance
  \/ DecoderSeeked
  \/ DecoderError
  \/ \E r \in Runs : LoadTimeout(r)
  \/ \E r \in Runs, k \in SeqIds : StartDelay(r, k)
  \/ \E r \in Runs, k \in SeqIds : SeekTimeout(r, k)
  \/ \E r \in Runs, k \in SeqIds : AnimationFrame(r, k)
  \/ \E r \in Runs, k \in SeqIds : ImageLoaded(r, k)
  \/ \E r \in Runs, k \in SeqIds : FrameDelay(r, k)

Spec == Init /\ [][Next]_vars

\* the timers and callbacks of the browser are run: the load timeout, the
\* delays, the seek timeout, the animation frame and the onload of a
\* preview image that can be decoded.  Nothing is assumed of the decoder or
\* of the caller; one run, with the disturbances of the limited budget.
InitFair ==
  /\ Constructed
  /\ budget = [runs |-> 1, limited |-> TRUE,
               disturbances |-> MaxDisturbances]
  /\ planner = NoPlanner
  /\ standalone = NoStandalone
  /\ batch = NoBatch
  /\ nearest = NoNearest
  /\ OthersIdle

SpecFair ==
  /\ InitFair
  /\ [][Next]_vars
  /\ WF_vars(\E r \in Runs : LoadTimeout(r))
  /\ WF_vars(\E r \in Runs, k \in SeqIds : StartDelay(r, k))
  /\ WF_vars(\E r \in Runs, k \in SeqIds : SeekTimeout(r, k))
  /\ WF_vars(\E r \in Runs, k \in SeqIds : AnimationFrame(r, k))
  /\ WF_vars(\E r \in Runs, k \in SeqIds : ImageLoaded(r, k))
  /\ WF_vars(\E r \in Runs, k \in SeqIds : FrameDelay(r, k))

\* ------------------------------------------------------------ claims ---
Started(r) == runs[r].promise # "none"

\* capture sequence k of run r has been started and has not finished
SeqInFlight(r, k) == runs[r].seqs[k].pc \notin {"none", "done"}

\* capture sequence k of run r is inside the seek-and-capture of one
\* planned timestamp (from the seek to the progress report)
Capturing(r, k) ==
  runs[r].seqs[k].pc \in
    {"loadedWait", "seekWait", "raf", "imgLoad", "imgNever"}

\* run r still has something to do: it is loading, or a capture sequence
\* of it is in flight
InFlight(r) ==
  \/ runs[r].canplayListener
  \/ runs[r].loadTimeout
  \/ \E k \in SeqIds : SeqInFlight(r, k)

\* video and canvas are held or dropped together
TypeOK ==
  /\ extractor.video.isNull <=> extractor.canvas = Null
  /\ extractor.canvas = Null <=> extractor.ctx = Null
  /\ nruns \in 0..MaxRuns
  /\ \A r \in Runs : Started(r) <=> r <= nruns

\* C1: once cancellation of a run has been requested while the run was
\* suspended in its capture loop, no further progress event and no
\* completion event is delivered for that run.
C1_NoEventsAfterCancel ==
  [][\A r \in Runs :
       observed[r].cancelRequested = "capturing" =>
         /\ observed'[r].progress = observed[r].progress
         /\ observed'[r].nComplete = observed[r].nComplete]_vars

\* C2: for every run the completion observer fires at most once and the
\* error observer fires at most once.
C2_TerminalEventsAtMostOnce ==
  \A r \in Runs : observed[r].nComplete <= 1 /\ observed[r].nError <= 1

\* run r has reported failure / success to its caller
Failed(r) == observed[r].nError > 0 \/ runs[r].promise = "rejected"
Succeeded(r) == observed[r].nComplete > 0 \/ runs[r].promise = "resolved"

\* C3: no run delivers both a completion (or a resolved result list) and
\* an error (or a rejection), and a failed run delivers no frames.
C3_SuccessXorFailure ==
  \A r \in Runs : Failed(r) => ~Succeeded(r) /\ observed[r].result = <<>>

\* C4: the current values of the progress events of a run never decrease
\* in delivery order, and every progress event has current <= total.
C4_ProgressMonotone ==
  \A r \in Runs :
    LET p == observed[r].progress
    IN /\ \A i \in 1..Len(p) : NumGE(p[i].total, p[i].current)
       /\ \A i \in 1..(Len(p) - 1) : p[i].current <= p[i + 1].current

\* the plan of run r: totalFrames of its file
PlannedFrames(r) == TotalFrames(MathMin(files[r].duration, maxDuration))

\* C5: the result list is a subsequence of the plan in index order: the
\* indices increase strictly, each is a planned index, and the list is no
\* longer than the plan.
C5_ResultsSubsequenceOfPlan ==
  LET f == extractor.frames
  IN nruns > 0 =>
       /\ \A i \in 1..(Len(f) - 1) : f[i].index < f[i + 1].index
       /\ \A i \in 1..Len(f) : f[i].index < PlannedFrames(f[i].run)
       /\ Len(f) <= PlannedFrames(nruns)

\* run r is active: started, nothing reported to the caller, no
\* cancellation requested, and something left to do
Active(r) ==
  /\ runs[r].promise = "pending"
  /\ observed[r].nComplete = 0 /\ observed[r].nError = 0
  /\ observed[r].cancelRequested = "no"
  /\ InFlight(r)

\* C6: while a run is active, a call of extractFrames fails with
\* 'Extraction already in progress' (and so changes nothing).
C6_ActiveRunRefusesNewRun ==
  (\E r \in Runs : Active(r)) => ThrowsAlreadyInProgress

\* C7: at no time are two seek-and-capture sequences in flight on the
\* extractor.
C7_OneCaptureAtATime ==
  Cardinality({rk \in Runs \X SeqIds : Capturing(rk[1], rk[2])}) <= 1

\* C8: when the latest run has reported its outcome, the video element and
\* the canvas have been released.
C8_ReleasedAtTerminal ==
  (nruns > 0 /\ runs[nruns].promise \in {"resolved", "rejected"}) =>
     extractor.video.isNull /\ extractor.canvas = Null

\* C9: a run cancelled in its capture loop, once it has nothing left to do,
\* has reported the cancellation: its promise is settled by a rejection and
\* neither the completion nor the error observer has fired.
C9_CancelReported ==
  \A r \in Runs :
    (observed[r].cancelRequested = "capturing" /\ ~InFlight(r)) =>
       /\ runs[r].promise = "rejected"
       /\ observed[r].nComplete = 0
       /\ observed[r].nError = 0

\* C10: a run whose cancellation was requested reads its cancellation flag
\* as true for as long as it goes on.
C10_CancelIrreversible ==
  \A r \in Runs :
    (observed[r].cancelRequested # "no" /\ InFlight(r)) =>
       extractor.currentExtraction.cancelled

\* ================================================ the timestamp plan ===
\* The plan of one extraction as the two extractors compute it from
\* video.duration and the fields frameRate and maxDuration: the number of
\* frames, then one target time per loop iteration.  Durations are in ms,
\* rates in frames per second and target times exact fractions of a ms.

\* video.duration of the file (ms)
PlanDurations == {50, 100, 500, 1000, 1050, 1400, 9950, 30000, 31000, 45000}
\* this.frameRate and this.maxDuration: both constructors set 2 and 30 s,
\* take no options, and nothing assigns the fields afterwards
PlanRates == {frameRate}
PlanMaxDurations == {maxDuration}
Variants == {"app", "standalone"}

Frac(n, d) == [num |-> n, den |-> d]
FracLT(a, b) == a.num * b.den < b.num * a.den
FracEQ(a, b) == a.num * b.den = b.num * a.den
\* Math.min(a, b) of two finite numbers
FracMin(a, b) == IF FracLT(b, a) THEN b ELSE a

\* Math.ceil(x / 1000) for x >= 0
CeilMilli(x) == (x + 999) \div 1000

\* the duration of the video without the cap
effectiveDurationUncapped(d, maxD) == d

\* duration = Math.min(video.duration, this.maxDuration)
effectiveDuration(d, maxD) == IF d < maxD THEN d ELSE maxD

\* Math.floor in place of Math.ceil
totalFramesAppFloor(d, rate, maxD) ==
  (effectiveDuration(d, maxD) * rate) \div 1000

\* app extractor: totalFrames = Math.ceil(duration * this.frameRate)
totalFramesApp(d, rate, maxD) == CeilMilli(effectiveDuration(d, maxD) * rate)

\* standalone extractor: Math.min(Math.ceil(duration * this.frameRate),
\*                                this.frameRate * this.maxDuration)
totalFramesStandalone(d, rate, maxD) ==
  LET ceiled == CeilMilli(effectiveDuration(d, maxD) * rate)
      \* a whole number of frames: maxDuration is a whole number of seconds
      cap == (rate * maxD) \div 1000
  IN IF cap < ceiled THEN cap ELSE ceiled

\* app extractor: Math.min(startFrame * frameInterval, duration) with
\* frameInterval = 1 / this.frameRate
targetTimeApp(i, d, rate, maxD) ==
  FracMin(Frac(i * 1000, rate), Frac(effectiveDuration(d, maxD), 1))

\* standalone extractor: Math.min(i * timeBetweenFrames, duration - 0.1)
\* with timeBetweenFrames = duration / totalFrames
timeStandalone(i, d, rate, maxD) ==
  LET duration == effectiveDuration(d, maxD)
  IN FracMin(Frac(i * duration, totalFramesStandalone(d, rate, maxD)),
             Frac(duration - 100, 1))

totalFramesOf(p) ==
  IF p.variant = "app"
  THEN totalFramesApp(p.duration, p.rate, p.maxDuration)
  ELSE totalFramesStandalone(p.duration, p.rate, p.maxDuration)

timeOf(p, i) ==
  IF p.variant = "app"
  THEN targetTimeApp(i, p.duration, p.rate, p.maxDuration)
  ELSE timeStandalone(i, p.duration, p.rate, p.maxDuration)

InitPlan ==
  /\ AppUnused
  /\ standalone = NoStandalone
  /\ batch = NoBatch
  /\ nearest = NoNearest
  /\ OthersIdle
  /\ \E v \in Variants, d \in PlanDurations, r \in PlanRates,
        m \in PlanMaxDurations :
       planner = [variant |-> v, duration |-> d, rate |-> r,
                  maxDuration |-> m, pc |-> "start", totalFrames |-> 0,
                  times |-> <<>>]

\* onCanPlay (app) / onloadedmetadata (standalone): the frame count
PlanFrames ==
  /\ planner.pc = "start"
  /\ LET n == totalFramesOf(planner)
     IN planner' = [planner EXCEPT
                      !.totalFrames = n,
                      !.pc = IF planner.variant = "standalone" /\ n <= 0
                             THEN "rejected" ELSE "loop"]
  /\ UNCHANGED <<appVars, nearest, analysis, request, standalone, batch>>

\* one iteration: the loop index (startFrame) is below totalFrames
PlanNextTime ==
  /\ planner.pc = "loop"
  /\ Len(planner.times) < planner.totalFrames
  /\ planner' = [planner EXCEPT
                   !.times = Append(@, timeOf(planner, Len(planner.times)))]
  /\ UNCHANGED <<appVars, nearest, analysis, request, standalone, batch>>

\* the loop index has reached totalFrames
PlanDone ==
  /\ planner.pc = "loop"
  /\ ~(Len(planner.times) < planner.totalFrames)
  /\ planner' = [planner EXCEPT !.pc = "done"]
  /\ UNCHANGED <<appVars, nearest, analysis, request, standalone, batch>>

NextPlan == PlanFrames \/ PlanNextTime \/ PlanDone

SpecPlan == InitPlan /\ [][NextPlan]_vars

Planned == planner.pc \in {"loop", "done"}

\* ceil(min(duration, maxDuration) * rate)
CeilOfProduct(p) ==
  LET e == IF p.duration < p.maxDuration THEN p.duration ELSE p.maxDuration
      x == e * p.rate
  IN IF x % 1000 = 0 THEN x \div 1000 ELSE x \div 1000 + 1

\* C11: the number of timestamps either extractor plans is
\* ceil(min(duration, maxDuration) * rate).
C11_TotalFramesIsCeil ==
  Planned => planner.totalFrames = CeilOfProduct(planner)

\* a duration above maxDuration, and one that is no multiple of the frame
\* interval, have been planned
C11_Witness ==
  /\ planner.pc = "done"
  /\ \/ planner.duration > planner.maxDuration /\ planner.totalFrames = 60
     \/ planner.duration = 1050 /\ planner.totalFrames = 3

\* min(duration, maxDuration) of the plan
EffectiveOf(p) ==
  IF p.duration < p.maxDuration THEN p.duration ELSE p.maxDuration

\* C12: the target times of a plan are strictly increasing and every one
\* of them is at least 0 and below min(duration, maxDuration).
C12_TimesIncreasingInRange ==
  LET t == planner.times
      e == Frac(EffectiveOf(planner), 1)
  IN Planned =>
       /\ \A i \in 1..Len(t) : t[i].num >= 0 /\ FracLT(t[i], e)
       /\ \A i \in 1..(Len(t) - 1) : FracLT(t[i], t[i + 1])

\* C13: the i-th target time is
\* min(i * (effectiveDuration / totalFrames), effectiveDuration - 0.1).
C13_TimesEvenlySpacedWithEndGuard ==
  LET t == planner.times
      e == EffectiveOf(planner)
  IN Planned =>
       \A i \in 1..Len(t) :
         LET spaced == Frac((i - 1) * e, planner.totalFrames)
             guard == Frac(e - 100, 1)
         IN FracEQ(t[i], IF FracLT(guard, spaced) THEN guard ELSE spaced)

\* C14: a run of the app extractor whose video has no positive duration
\* reports no completion, resolves no result list and captures no frame.
C14_InvalidDurationFails ==
  \A r \in Runs :
    (Started(r) /\ files[r].duration <= 0) =>
       /\ observed[r].nComplete = 0
       /\ runs[r].promise # "resolved"
       /\ \A i \in 1..Len(extractor.frames) : extractor.frames[i].run # r

\* ============================================ the standalone extractor ===
\* The first VideoFrameExtractor class (lines 5-253): one instance, its
\* caller (extractFrames, cleanup), the decoder of each run's own video
\* element (loadedmetadata, error, seeked) and the timers and callbacks of
\* the loop (toBlob, the 50 ms delay).  Every action is one task with all
\* the promise reactions it triggers.

\* the 0.1 s "already there" window of seekVideo (ms)
seekVideoEpsilon == 100

\* durations (ms) of the files handed to the standalone extractor
StandaloneDurations == {0, 1000, 1400}
\* the largest frame index of these files
LastIndex == 2
\* what the capture of frame i of a file yields: a painted frame, an
\* all-zero frame, or an exception of drawImage / getImageData / toDataURL
AllUsable == [i \in 0..LastIndex |-> "usable"]
AllEmpty == [i \in 0..LastIndex |-> "empty"]
FirstEmpty == [i \in 0..LastIndex |-> IF i = 0 THEN "empty" ELSE "usable"]
SecondThrows == [i \in 0..LastIndex |-> IF i = 1 THEN "throws" ELSE "usable"]
StandaloneFiles ==
  { [duration |-> d, capture |-> c] :
      d \in StandaloneDurations,
      c \in {AllUsable, AllEmpty, FirstEmpty, SecondThrows} }

\* |a - b| < eps for two fractions of a ms
FracNear(a, b, eps) ==
  LET x == a.num * b.den - b.num * a.den
  IN (IF x < 0 THEN -x ELSE x) < eps * a.den * b.den

NoStandaloneRun ==
  [pc |-> "none", file |-> [duration |-> 0, capture |-> AllUsable],
   duration |-> 0, totalFrames |-> 0, i |-> 0, promise |-> "none",
   emptied |-> FALSE, error |-> FALSE, currentTime |-> Frac(0, 1),
   canvasZero |-> FALSE,
   progress |-> <<>>, nComplete |-> 0, nError |-> 0, result |-> <<>>,
   cleanupRequested |-> FALSE]

\* the constructor, lines 6-18
InitStandalone ==
  /\ AppUnused
  /\ planner = NoPlanner
  /\ batch = NoBatch
  /\ nearest = NoNearest
  /\ OthersIdle
  /\ \E b \in Budgets :
       standalone =
         [pc |-> "constructed", isProcessing |-> FALSE,
          currentVideo |-> 0, currentCanvas |-> 0,
          frames |-> <<>>, previewFrames |-> <<>>,
          nruns |-> 0, alreadyInProgress |-> FALSE, budget |-> b,
          runs |-> [r \in Runs |-> NoStandaloneRun]]

\* cleanup(), lines 23-42
cleanupStandalone(S) ==
  LET v == S.currentVideo
      c == S.currentCanvas
      S1 == IF v # 0
            THEN [S EXCEPT !.runs[v].emptied = TRUE,
                           !.runs[v].currentTime = Frac(0, 1)]
            ELSE S
      S2 == IF c # 0 THEN [S1 EXCEPT !.runs[c].canvasZero = TRUE] ELSE S1
  IN [S2 EXCEPT !.isProcessing = FALSE,
                !.currentVideo = 0, !.currentCanvas = 0,
                !.frames = <<>>, !.previewFrames = <<>>]

\* the end of extractFrames after the loop, lines 212-217, and finally
completeStandalone(S, r) ==
  cleanupStandalone(
    [S EXCEPT !.runs[r].nComplete = @ + 1,
              !.runs[r].result = S.previewFrames,
              !.runs[r].promise = "resolved",
              !.runs[r].pc = "returned"])

\* the catch block of extractFrames, lines 219-224, and finally
failStandalone(S, r) ==
  cleanupStandalone(
    [S EXCEPT !.runs[r].nError = @ + 1,
              !.runs[r].promise = "rejected",
              !.runs[r].pc = "thrown"])

\* the loop of extractFrames from the top of iteration runs[r].i, lines
\* 146-210, up to its next suspension
RECURSIVE loopStandalone(_, _)
loopStandalone(S, r) ==
  LET run == S.runs[r]
      i == run.i
      next == [S EXCEPT !.runs[r].i = i + 1]
  IN IF ~(i < run.totalFrames) \/ ~S.isProcessing
     THEN completeStandalone(S, r)
     ELSE
       LET time == timeStandalone(i, run.file.duration, frameRate,
                                  maxDuration)
           outcome == IF run.canvasZero THEN "throws"
                      ELSE IF run.emptied THEN "empty"
                      ELSE run.file.capture[i]
       IN IF run.pc # "seeked"
             /\ ~FracNear(run.currentTime, time, seekVideoEpsilon)
          THEN \* seekVideo: wait for seeked
               [S EXCEPT !.runs[r].pc = "seeking",
                         !.runs[r].currentTime = time]
          ELSE IF outcome = "usable"
          THEN [S EXCEPT !.previewFrames = Append(@, [run |-> r, index |-> i]),
                         !.runs[r].pc = "toBlob"]
          ELSE \* empty frame, or an exception caught: continue
               loopStandalone([next EXCEPT !.runs[r].pc = "loop"], r)

\* video.onloadedmetadata of loadVideo, lines 62-92, and what extractFrames
\* does with the result, lines 136-143
loadedMetadata(S, r) ==
  LET d == S.runs[r].file.duration
      n == totalFramesStandalone(d, frameRate, maxDuration)
  IN IF n <= 0
     THEN failStandalone(S, r)
     ELSE loopStandalone(
            [S EXCEPT !.currentVideo = r, !.currentCanvas = r,
                      !.runs[r].duration = effectiveDuration(d, maxDuration),
                      !.runs[r].totalFrames = n,
                      !.runs[r].i = 0,
                      !.runs[r].pc = "loop"], r)

StandaloneDisturb(S) ==
  IF S.budget.limited
  THEN [S EXCEPT !.budget.disturbances = @ - 1]
  ELSE S

MayDisturbStandalone ==
  standalone.budget.limited => standalone.budget.disturbances > 0

\* extractFrames(file), lines 125-136, accepted
StandaloneExtractFrames ==
  /\ ~standalone.isProcessing
  /\ standalone.nruns < standalone.budget.runs
  /\ \E f \in StandaloneFiles :
       LET r == standalone.nruns + 1
       IN standalone' =
            [standalone EXCEPT
               !.isProcessing = TRUE,
               !.frames = <<>>, !.previewFrames = <<>>,
               !.nruns = r,
               !.runs[r] = [NoStandaloneRun EXCEPT
                              !.pc = "loading", !.file = f,
                              !.promise = "pending"]]
  /\ UNCHANGED <<appVars, nearest, analysis, request, planner, batch>>

\* extractFrames(file) while isProcessing: throws before the try block
StandaloneExtractFramesBusy ==
  /\ standalone.isProcessing
  /\ standalone' = [standalone EXCEPT !.alreadyInProgress = TRUE]
  /\ UNCHANGED <<appVars, nearest, analysis, request, planner, batch>>

\* the caller calls cleanup()
StandaloneCleanup ==
  /\ standalone.nruns > 0
  /\ MayDisturbStandalone
  /\ LET S == StandaloneDisturb(standalone)
     IN standalone' =
          cleanupStandalone(
            [S EXCEPT !.runs = [r \in Runs |->
                        IF S.runs[r].promise = "pending"
                        THEN [S.runs[r] EXCEPT !.cleanupRequested = TRUE]
                        ELSE S.runs[r]]])
  /\ UNCHANGED <<appVars, nearest, analysis, request, planner, batch>>

\* the decoder has the metadata of run r's video
StandaloneLoadedMetadata(r) ==
  /\ standalone.runs[r].pc = "loading"
  /\ standalone' = loadedMetadata(standalone, r)
  /\ UNCHANGED <<appVars, nearest, analysis, request, planner, batch>>

\* the decoder fails on run r's video: video.onerror rejects loadVideo if
\* it is still pending (lines 94-96); a seek under way never completes
StandaloneDecoderError(r) ==
  /\ standalone.runs[r].pc \in {"loading", "seeking", "toBlob", "delay"}
  /\ ~standalone.runs[r].error /\ ~standalone.runs[r].emptied
  /\ MayDisturbStandalone
  /\ LET S == [StandaloneDisturb(standalone) EXCEPT !.runs[r].error = TRUE]
     IN standalone' = IF S.runs[r].pc = "loading"
                      THEN failStandalone(S, r)
                      ELSE S
  /\ UNCHANGED <<appVars, nearest, analysis, request, planner, batch>>

\* seeked on run r's video: onSeeked of seekVideo, then the capture
StandaloneSeeked(r) ==
  /\ standalone.runs[r].pc = "seeking"
  /\ ~standalone.runs[r].error /\ ~standalone.runs[r].emptied
  /\ standalone' =
       loopStandalone([standalone EXCEPT !.runs[r].pc = "seeked"], r)
  /\ UNCHANGED <<appVars, nearest, analysis, request, planner, batch>>

\* the callback of canvas.toBlob, lines 181-201
StandaloneBlob(r) ==
  /\ standalone.runs[r].pc = "toBlob"
  /\ LET i == standalone.runs[r].i
     IN standalone' =
          [standalone EXCEPT
             !.frames = Append(@, [run |-> r, index |-> i]),
             !.runs[r].progress =
                Append(@, [current |-> i + 1,
                           total |-> standalone.runs[r].totalFrames]),
             !.runs[r].pc = "delay"]
  /\ UNCHANGED <<appVars, nearest, analysis, request, planner, batch>>

\* the 50 ms timer, line 204, and the next iteration
StandaloneDelay(r) ==
  /\ standalone.runs[r].pc = "delay"
  /\ standalone' =
       loopStandalone([standalone EXCEPT !.runs[r].i = @ + 1,
                                         !.runs[r].pc = "loop"], r)
  /\ UNCHANGED <<appVars, nearest, analysis, request, planner, batch>>

NextStandalone ==
  \/ StandaloneExtractFrames
  \/ StandaloneExtractFramesBusy
  \/ StandaloneCleanup
  \/ \E r \in Runs : StandaloneLoadedMetadata(r)
  \/ \E r \in Runs : StandaloneDecoderError(r)
  \/ \E r \in Runs : StandaloneSeeked(r)
  \/ \E r \in Runs : StandaloneBlob(r)
  \/ \E r \in Runs : StandaloneDelay(r)

SpecStandalone == InitStandalone /\ [][NextStandalone]_vars

\* the callbacks and timers of the browser are run: canvas.toBlob calls
\* back and the 50 ms timer fires.  Nothing is assumed of the decoder or of
\* the caller.
SpecStandaloneFair ==
  /\ SpecStandalone
  /\ WF_vars(\E r \in Runs : StandaloneBlob(r))
  /\ WF_vars(\E r \in Runs : StandaloneDelay(r))

\* C15: a run of the standalone extractor in which every capture is an
\* empty frame does not complete successfully: the completion observer is
\* not called and the promise is not resolved.
C15_AllEmptyIsAnError ==
  \A r \in Runs :
    LET run == standalone.runs[r]
    IN (run.promise # "none" /\ run.file.capture = AllEmpty
          /\ ~run.cleanupRequested) =>
         run.nComplete = 0 /\ run.promise # "resolved"

\* C16: once a run of the app extractor has obtained a frame, a problem
\* with the seek for a later timestamp does not make it report a run-level
\* error.
C16_LaterProblemsAreSkipped ==
  [][\A r \in Runs :
       (/\ observed[r].progress # <<>>
        /\ \E k \in SeqIds : runs[r].seqs[k].pc = "seekWait") =>
         /\ observed'[r].nError = observed[r].nError
         /\ runs'[r].promise # "rejected"]_vars

\* ================================================== the batch sampler ===
\* extractVideoFrames and getVideoDuration of src/server/index.js: calls
\* of extractVideoFrames with one outputDir, the clock read by Date.now(),
\* the file system below outputDir, and the ffprobe / ffmpeg processes and
\* file-system operations each call awaits.  Every action is one task of
\* the Node event loop with the promise reactions it triggers.

Calls == 1..MaxRuns
\* the frameCount argument of extractVideoFrames
frameCount == 2
Invocations == 1..frameCount
\* the values Date.now() takes while the calls are made (ms)
LastInstant == 2
Instants == 0..LastInstant
\* how the fast ffprobe process ends: execPromise rejects, or stdout is
\* empty, "N/A", or a number of seconds
FastProbeOutcomes == {"rejects", "", "N/A", "0.000000", "5.000000"}
\* how the fallback ffprobe process ends: execPromise rejects, or stdout
\* has no duration line, a line without digits, or a duration line
FallbackProbeOutcomes ==
  {"rejects", "codec_type=video", "duration=N/A", "duration=.",
   "duration=0.000000", "duration=5.000000"}
\* parseFloat(text), in ms; NaN when no number can be read
parseFloat(text) ==
  CASE text = "5.000000" -> 5000
    [] text = "0.000000" -> 0
    [] OTHER -> NaN
\* stdout.match(/duration=([0-9.]+)/): the captured group, or "null"
durationMatch(stdout) ==
  CASE stdout = "duration=5.000000" -> "5.000000"
    [] stdout = "duration=0.000000" -> "0.000000"
    [] stdout = "duration=." -> "."
    [] OTHER -> "null"
\* !isNaN(duration) && duration > 0, line 773
parseablePositive(d) == ~IsNaN(d) /\ d > 0
\* how an ffmpeg process ends: a frame written, a zero-byte file written,
\* or a failure without output
FfmpegOutcomes == {"frame", "zeroBytes", "fails"}

\* timestamps[i - 1] = Math.min(Math.floor(interval * i), duration - 0.1)
\* with interval = duration / (frameCount + 1); seconds in the source
\* for n frames
batchTimestampOf(i, duration, n) ==
  LET floored == (((duration * i) \div (n + 1)) \div 1000) * 1000
      guard == duration - 100
  IN IF guard < floored THEN guard ELSE floored

batchTimestamp(i, duration) == batchTimestampOf(i, duration, frameCount)

NoCall ==
  [pc |-> "none", tempDir |-> 0, startedAt |-> 0, duration |-> 0,
   fast |-> "none", fallback |-> "none", unlinked |-> {}, rm |-> "none",
   inv |-> [i \in Invocations |-> "none"],
   framePaths |-> <<>>, error |-> "none"]

InitBatch ==
  /\ AppUnused
  /\ planner = NoPlanner
  /\ standalone = NoStandalone
  /\ nearest = NoNearest
  /\ OthersIdle
  /\ batch = [pc |-> "idle", now |-> 0, ncalls |-> 0,
              dirs |-> {}, files |-> {},
              calls |-> [c \in Calls |-> NoCall]]

\* the file at path tempDir/frame-i.jpg, if any
FilesAt(B, dir, i) == {f \in B.files : f.dir = dir /\ f.index = i}

\* a catch block that throws without removing the directory
catchBatchNoCleanup(B, c, why) ==
  [B EXCEPT !.calls[c].error = why, !.calls[c].pc = "thrown"]

\* the catch block of extractVideoFrames up to its await, lines 747-752;
\* rm = "skipped" when existsSync(tempDir) is false
catchBatch(B, c, why) ==
  IF B.calls[c].tempDir \in B.dirs
  THEN [B EXCEPT !.calls[c].error = why, !.calls[c].pc = "removing"]
  ELSE [B EXCEPT !.calls[c].error = why, !.calls[c].pc = "thrown",
                 !.calls[c].rm = "skipped"]

\* a failed removal whose error is thrown in place of the original one
removalFailureThrown(B, c) ==
  [B EXCEPT !.calls[c].rm = "failed", !.calls[c].pc = "thrown",
            !.calls[c].error = "cleanupError"]

\* fs.promises.rm rejects: the inner catch logs cleanupError, and the
\* original error is thrown, lines 753-758
removalFailed(B, c) ==
  [B EXCEPT !.calls[c].rm = "failed", !.calls[c].pc = "thrown"]

\* after Promise.all has resolved, lines 741-746
afterAll(B, c) ==
  IF Len(B.calls[c].framePaths) = 0
  THEN catchBatch(B, c, "noFrames")
  ELSE [B EXCEPT !.calls[c].pc = "returned"]

\* one invocation has settled; Promise.all resolves after the last one
settle(B, c, i) ==
  LET B1 == [B EXCEPT !.calls[c].inv[i] = "settled"]
  IN IF \A j \in Invocations : B1.calls[c].inv[j] = "settled"
     THEN afterAll(B1, c)
     ELSE B1

\* an invocation whose failure rejects Promise.all
invocationAborts(B, c, i) == catchBatch(B, c, "invocation")

\* the catch block of one invocation, lines 736-739
invocationFailed(B, c, i) == settle(B, c, i)

\* extractVideoFrames(videoPath, outputDir) up to its first await,
\* lines 679-695
\* mkdirSync is called when the directory does not exist, and may throw
BatchCall ==
  /\ batch.ncalls < MaxRuns
  /\ \E made \in BOOLEAN :
       LET c == batch.ncalls + 1
           B1 == [batch EXCEPT
                    !.ncalls = c,
                    !.calls[c] = [NoCall EXCEPT !.pc = "probing",
                                                !.tempDir = batch.now,
                                                !.startedAt = batch.now]]
       IN batch' = IF made \/ batch.now \in batch.dirs
                   THEN [B1 EXCEPT !.dirs = @ \cup {batch.now}]
                   ELSE catchBatch(B1, c, "mkdir")
  /\ UNCHANGED <<appVars, nearest, analysis, request, planner, standalone>>

\* a millisecond passes
BatchTick ==
  /\ batch.now < LastInstant
  /\ batch' = [batch EXCEPT !.now = @ + 1]
  /\ UNCHANGED <<appVars, nearest, analysis, request, planner, standalone>>

\* getVideoDuration has returned d (NaN stands for null), lines 695-740
\* up to the awaits of the invocations
durationKnown(B, c, d) ==
  IF IsNaN(d) \/ d <= 0
  THEN catchBatch(B, c, "invalidDuration")
  ELSE [B EXCEPT !.calls[c].pc = "extracting",
                 !.calls[c].duration = d,
                 !.calls[c].inv = [i \in Invocations |-> "ffmpeg"]]

\* an outer catch of getVideoDuration that rethrows
probeRethrows(B, c) == catchBatch(B, c, "probeError")

\* the outer catch of getVideoDuration, lines 793-797: return null
probeCaught(B, c) == durationKnown(B, c, NaN)

\* the fast ffprobe has exited, lines 766-778; a process takes more than
\* the rest of the millisecond
BatchFastProbed(c) ==
  /\ batch.calls[c].pc = "probing"
  /\ batch.calls[c].startedAt < batch.now
  /\ \E o \in FastProbeOutcomes :
       LET B1 == [batch EXCEPT !.calls[c].fast = o]
           d == IF o = "rejects" THEN NaN ELSE parseFloat(o)
       IN batch' = IF parseablePositive(d)
                   THEN durationKnown(B1, c, d)
                   ELSE [B1 EXCEPT !.calls[c].pc = "fallback"]
  /\ UNCHANGED <<appVars, nearest, analysis, request, planner, standalone>>

\* the fallback ffprobe has exited, lines 780-797
BatchFallbackProbed(c) ==
  /\ batch.calls[c].pc = "fallback"
  /\ \E o \in FallbackProbeOutcomes :
       LET B1 == [batch EXCEPT !.calls[c].fallback = o]
           m == durationMatch(o)
       IN batch' = IF o = "rejects" THEN probeCaught(B1, c)
                   ELSE IF m # "null" THEN durationKnown(B1, c, parseFloat(m))
                   ELSE durationKnown(B1, c, NaN)
  /\ UNCHANGED <<appVars, nearest, analysis, request, planner, standalone>>

\* the ffmpeg process of invocation i exits, lines 717-723
FfmpegExit(c, i) ==
  /\ batch.calls[c].pc = "extracting"
  /\ batch.calls[c].inv[i] = "ffmpeg"
  /\ \E o \in FfmpegOutcomes :
       LET dir == batch.calls[c].tempDir
           outcome == IF dir \in batch.dirs THEN o ELSE "fails"
           written == [dir |-> dir, index |-> i, by |-> c,
                       size |-> IF outcome = "frame" THEN 1 ELSE 0]
       IN batch' =
            IF outcome = "fails"
            THEN invocationFailed(batch, c, i)
            ELSE [batch EXCEPT
                    !.files = (@ \ FilesAt(batch, dir, i)) \cup {written},
                    !.calls[c].inv[i] = "stat"]
  /\ UNCHANGED <<appVars, nearest, analysis, request, planner, standalone>>

\* fs.promises.stat(outputPath) has settled, lines 725-736
StatDone(c, i) ==
  /\ batch.calls[c].pc = "extracting"
  /\ batch.calls[c].inv[i] = "stat"
  /\ LET at == FilesAt(batch, batch.calls[c].tempDir, i)
     IN batch' =
          IF at = {}
          THEN invocationFailed(batch, c, i)
          ELSE LET f == CHOOSE x \in at : TRUE
               IN IF f.size > 0
                  THEN settle([batch EXCEPT
                                 !.calls[c].framePaths =
                                    Append(@, [index |-> i,
                                               time |-> batchTimestamp(
                                                  i, batch.calls[c].duration),
                                               dir |-> f.dir])],
                              c, i)
                  ELSE [batch EXCEPT !.calls[c].inv[i] = "unlink"]
  /\ UNCHANGED <<appVars, nearest, analysis, request, planner, standalone>>

\* the empty artifact is left in place
UnlinkSkipped(c, i) ==
  /\ batch.calls[c].pc = "extracting"
  /\ batch.calls[c].inv[i] = "unlink"
  /\ batch' = settle(batch, c, i)
  /\ UNCHANGED <<appVars, nearest, analysis, request, planner, standalone>>

\* fs.promises.unlink(outputPath).catch(...) has settled, line 734
UnlinkDone(c, i) ==
  /\ batch.calls[c].pc = "extracting"
  /\ batch.calls[c].inv[i] = "unlink"
  /\ batch' = settle([batch EXCEPT
                        !.files = @ \ FilesAt(batch, batch.calls[c].tempDir, i),
                        !.calls[c].unlinked = @ \cup {i}],
                     c, i)
  /\ UNCHANGED <<appVars, nearest, analysis, request, planner, standalone>>

\* fs.promises.rm(tempDir, {recursive, force}) has settled; the error is
\* thrown, lines 751-759
BatchRemoved(c) ==
  /\ batch.calls[c].pc = "removing"
  /\ \E removed \in BOOLEAN :
       LET dir == batch.calls[c].tempDir
       IN batch' = IF removed
                   THEN [batch EXCEPT
                           !.dirs = @ \ {dir},
                           !.files = {f \in @ : f.dir # dir},
                           !.calls[c].rm = "removed",
                           !.calls[c].pc = "thrown"]
                   ELSE removalFailed(batch, c)
  /\ UNCHANGED <<appVars, nearest, analysis, request, planner, standalone>>

NextBatch ==
  \/ BatchCall
  \/ BatchTick
  \/ \E c \in Calls : BatchFastProbed(c)
  \/ \E c \in Calls : BatchFallbackProbed(c)
  \/ \E c \in Calls, i \in Invocations : FfmpegExit(c, i)
  \/ \E c \in Calls, i \in Invocations : StatDone(c, i)
  \/ \E c \in Calls, i \in Invocations : UnlinkDone(c, i)
  \/ \E c \in Calls : BatchRemoved(c)

SpecBatch == InitBatch /\ [][NextBatch]_vars

AllSettled(c) == \A i \in Invocations : batch.calls[c].inv[i] = "settled"
\* call c is past its catch block or its return
Ended(c) == batch.calls[c].pc \in {"returned", "removing", "thrown"}

\* C17: a call that ends after a valid duration ends only when all its
\* invocations have settled, whatever failed among them; it fails (no
\* frames) exactly when no frame was extracted and returns otherwise.
C17_BatchFailsOnlyWithoutFrames ==
  \A c \in Calls :
    (Ended(c) /\ batch.calls[c].error \notin {"invalidDuration", "mkdir"}) =>
       /\ AllSettled(c)
       /\ batch.calls[c].error = "noFrames" <=> batch.calls[c].framePaths = <<>>
       /\ batch.calls[c].pc = "returned" <=> batch.calls[c].framePaths # <<>>

\* a call has returned one frame although its other invocation produced
\* none
C17_Witness ==
  \E c \in Calls :
    /\ batch.calls[c].pc = "returned"
    /\ Len(batch.calls[c].framePaths) = 1
    /\ FilesAt(batch, batch.calls[c].tempDir, 1) = {}

C19_FramesInPlanOrder ==
  \A c \in Calls :
    LET f == batch.calls[c].framePaths
    IN \A k \in 1..(Len(f) - 1) : f[k].index < f[k + 1].index

\* C20: the frames a call has returned are on disk as that call wrote
\* them: no other call has overwritten or removed them.
C20_ScratchExclusive ==
  \A c \in Calls :
    batch.calls[c].pc = "returned" =>
      \A k \in 1..Len(batch.calls[c].framePaths) :
        \E f \in FilesAt(batch, batch.calls[c].tempDir,
                         batch.calls[c].framePaths[k].index) : f.by = c

\* the fast probe of call c has exited without a parseable positive
\* duration
FastFailed(c) ==
  /\ batch.calls[c].fast # "none"
  /\ (batch.calls[c].fast = "rejects"
        \/ ~parseablePositive(parseFloat(batch.calls[c].fast)))
\* the fallback probe of call c has exited without a usable duration
FallbackFailed(c) ==
  /\ batch.calls[c].fallback # "none"
  /\ (batch.calls[c].fallback = "rejects"
        \/ ~parseablePositive(
              parseFloat(durationMatch(batch.calls[c].fallback))))

\* C21: the fallback probe runs only after the fast probe has failed to
\* give a parseable positive duration; when both probes fail, the call
\* fails with the invalid-duration error, no invocation has been launched
\* and nothing has been written.
C21_BothProbesFailIsInvalidDuration ==
  \A c \in Calls :
    /\ batch.calls[c].pc = "fallback" => FastFailed(c)
    /\ batch.calls[c].fallback # "none" => FastFailed(c)
    /\ (FastFailed(c) /\ FallbackFailed(c)) =>
         /\ batch.calls[c].pc \in {"removing", "thrown"}
         /\ batch.calls[c].error = "invalidDuration"
         /\ \A i \in Invocations : batch.calls[c].inv[i] = "none"
         /\ batch.calls[c].framePaths = <<>>
         /\ \A f \in batch.files : f.by # c

\* a call has thrown after its fast probe printed no number and its
\* fallback process was rejected
C21_Witness ==
  \E c \in Calls :
    /\ batch.calls[c].fast = "N/A"
    /\ batch.calls[c].fallback = "rejects"
    /\ batch.calls[c].pc = "thrown"

\* C22: the plan of a 9.95 s video has effectiveDuration 9.95 s, 20 target
\* times, the first 0 and the last min(19 * 0.4975, 9.85) = 9.4525 s.
C22_Example995 ==
  (planner.duration = 9950 /\ planner.pc = "done") =>
     /\ EffectiveOf(planner) = 9950
     /\ planner.totalFrames = 20
     /\ Len(planner.times) = 20
     /\ FracEQ(planner.times[1], Frac(0, 1))
     /\ FracEQ(planner.times[20], Frac(94525, 10))

\* C23 as stated: the plan of a 45 s video has effectiveDuration 30 s, 60
\* target times and a last one of 29.4 s to the precision given (within
\* 0.05 s).
C23_Example45 ==
  (planner.duration = 45000 /\ planner.pc = "done") =>
     /\ EffectiveOf(planner) = 30000
     /\ planner.totalFrames = 60
     /\ Len(planner.times) = 60
     /\ FracNear(planner.times[60], Frac(29400, 1), 50)

\* C23 amended: the last target time is min(59 * 0.5, 29.9) = 29.5 s.
C23_Example45Last295 ==
  (planner.duration = 45000 /\ planner.pc = "done") =>
     /\ EffectiveOf(planner) = 30000
     /\ planner.totalFrames = 60
     /\ Len(planner.times) = 60
     /\ FracEQ(planner.times[60], Frac(29500, 1))

\* the standalone extractor has planned the 45 s video
C23_Witness ==
  /\ planner.variant = "standalone"
  /\ planner.duration = 45000
  /\ planner.pc = "done"
  /\ Len(planner.times) = 60

\* C24: for the duration and the number of frames of a plan, the app
\* extractor, the standalone extractor and extractVideoFrames compute the
\* same list of target times.
C24_PlansIdentical ==
  LET t == planner.times
      n == planner.totalFrames
      d == planner.duration
  IN planner.pc = "done" =>
       \A k \in 1..Len(t) :
         /\ FracEQ(t[k], targetTimeApp(k - 1, d, planner.rate,
                                       planner.maxDuration))
         /\ FracEQ(t[k], timeStandalone(k - 1, d, planner.rate,
                                        planner.maxDuration))
         /\ FracEQ(t[k], Frac(batchTimestampOf(k, EffectiveOf(planner), n), 1))

\* C25: a run of the standalone extractor that went through all its
\* planned indices undisturbed has emitted, for every index i, exactly one
\* progress event with current = i + 1 and total = totalFrames, in order.
C25_ProgressForEveryAttempt ==
  \A r \in Runs :
    LET run == standalone.runs[r]
    IN (run.pc = "returned" /\ ~run.cleanupRequested /\ ~run.error) =>
         run.progress = [k \in 1..run.totalFrames |->
                           [current |-> k, total |-> run.totalFrames]]

\* C26: a captured frame whose every channel value is zero is not appended
\* to the frames of the app extractor nor delivered in a result list.
C26_EmptyFrameNeverAppended ==
  /\ \A i \in 1..Len(extractor.frames) :
       extractor.frames[i].content # "zero"
  /\ \A r \in Runs : \A i \in 1..Len(observed[r].result) :
       observed[r].result[i].content # "zero"

\* C27: a run of the standalone extractor that waits for the completion of
\* a seek stops waiting, whether or not the decoder signals it.
C27_SeekWaitIsBounded ==
  \A r \in Runs :
    (standalone.runs[r].pc = "seeking") ~> (standalone.runs[r].pc # "seeking")

\* C28: a run of the standalone extractor whose video is still loading,
\* left alone by its caller, leaves the load phase whether or not the
\* decoder becomes ready.
C28_LoadWaitIsBounded ==
  \A r \in Runs :
    (standalone.runs[r].pc = "loading" /\ ~standalone.runs[r].cleanupRequested)
      ~> (standalone.runs[r].pc # "loading"
            \/ standalone.runs[r].cleanupRequested)

\* C29: every started run of the app extractor eventually settles its
\* promise or has its cancellation requested, given only that timers and
\* callbacks run.
C29_EveryRunTerminates ==
  \A r \in Runs :
    Started(r) ~> (runs[r].promise # "pending"
                     \/ observed[r].cancelRequested # "no")

\* ======================================= getNearestSeekableTime alone ===
\* One call of getNearestSeekableTime on a video whose seekable attribute
\* is a normalized TimeRanges object (ranges in order, apart from one
\* another) and a target time the capture loop can pass: a time within the
\* duration, or NaN when the duration was not known.  Times in ms.

SeekPoints == {0, 100, 200, 300, 400, 500}
SeekTargets == SeekPoints \cup {50, 250, 600, NaN}
\* the largest time considered when all points of the ranges are compared
LastPoint == 600
SeekRange == {[start |-> a, end |-> b] : a \in SeekPoints, b \in SeekPoints}
SeekableRanges ==
  {<<>>}
    \cup {<<x>> : x \in {y \in SeekRange : y.start <= y.end}}
    \cup {<<x, z>> : x \in {y \in SeekRange : y.start <= y.end},
                     z \in {y \in SeekRange : y.start <= y.end}}

InitNearest ==
  /\ AppUnused
  /\ OthersIdle
  /\ planner = NoPlanner
  /\ standalone = NoStandalone
  /\ batch = NoBatch
  /\ \E rs \in SeekableRanges, t \in SeekTargets :
       /\ \A i \in 1..(Len(rs) - 1) : rs[i].end < rs[i + 1].start
       /\ nearest = [pc |-> "called", ranges |-> rs, targetTime |-> t,
                     result |-> 0]

\* the call returns
NearestReturn ==
  /\ nearest.pc = "called"
  /\ nearest' = [nearest EXCEPT
                   !.pc = "returned",
                   !.result = getNearestSeekableTime(nearest.ranges,
                                                     nearest.targetTime)]
  /\ UNCHANGED <<appVars, analysis, request, planner, standalone, batch>>

NextNearest == NearestReturn

SpecNearest == InitNearest /\ [][NextNearest]_vars

\* time p lies inside one of the ranges
InRanges(p, ranges) ==
  /\ ~IsNaN(p)
  /\ \E i \in 1..Len(ranges) : ranges[i].start <= p /\ p <= ranges[i].end

\* p is a point of the ranges at minimal distance from t
NearestInRanges(p, t, ranges) ==
  /\ InRanges(p, ranges)
  /\ \A q \in 0..LastPoint :
       InRanges(q, ranges) => Abs(p - t) <= Abs(q - t)

RecordsOf(c, i) ==
  {k \in 1..Len(batch.calls[c].framePaths) :
     batch.calls[c].framePaths[k].index = i}

C32_CleanupBeforeEarlyError ==
  \A c \in Calls :
    LET call == batch.calls[c]
    IN (call.pc = "thrown" /\ \A i \in Invocations : call.inv[i] = "none") =>
         /\ call.rm \in {"removed", "failed", "skipped"}
         /\ call.error \in {"invalidDuration", "mkdir"}
         /\ call.error = "invalidDuration" <=> call.fast # "none"

\* a call has thrown the invalid-duration error although the removal of
\* its directory failed
C32_Witness ==
  \E c \in Calls :
    /\ batch.calls[c].pc = "thrown"
    /\ batch.calls[c].error = "invalidDuration"
    /\ batch.calls[c].rm = "failed"
    /\ batch.calls[c].tempDir \in batch.dirs

\* C33: of the two capture sequences a run of the app extractor can
\* start, the one of the canplay listener and the one of the load timeout,
\* at most one is ever started.
C33_OnCanPlayAtMostOnce ==
  \A r \in Runs :
    Cardinality({k \in SeqIds : runs[r].seqs[k].pc # "none"}) <= 1

\* C34: once the error listener of a run of the app extractor has reported
\* a load error, the run starts no capture sequence and delivers no
\* progress or completion event.
C34_QuietAfterLoadError ==
  [][\A r \in Runs :
       observed[r].loadError =>
         /\ observed'[r].progress = observed[r].progress
         /\ observed'[r].nComplete = observed[r].nComplete
         /\ \A k \in SeqIds :
              runs[r].seqs[k].pc = "none" => runs'[r].seqs[k].pc = "none"]_vars

\* ============================== the timestamps of extractVideoFrames ===
\* The timestamps array of extractVideoFrames (lines 703-709) for a
\* duration getVideoDuration has returned and a frameCount argument
\* (10 by default), computed one loop iteration at a time.  Times in ms.

BatchPlanDurations == {50, 1000, 2500, 5000, 9950, 30000}
BatchPlanCounts == {1, 2, 3, 10}

InitBatchPlan ==
  /\ AppUnused
  /\ standalone = NoStandalone
  /\ batch = NoBatch
  /\ nearest = NoNearest
  /\ OthersIdle
  /\ \E d \in BatchPlanDurations, n \in BatchPlanCounts :
       planner = [variant |-> "batch", duration |-> d, frameCount |-> n,
                  pc |-> "loop", times |-> <<>>]

\* one iteration of the for loop: i = Len(times) + 1 <= frameCount
BatchPlanPush ==
  /\ planner.pc = "loop"
  /\ Len(planner.times) < planner.frameCount
  /\ planner' = [planner EXCEPT
                   !.times = Append(@, batchTimestampOf(Len(planner.times) + 1,
                                                        planner.duration,
                                                        planner.frameCount))]
  /\ UNCHANGED <<appVars, nearest, analysis, request, standalone, batch>>

\* i has passed frameCount
BatchPlanDone ==
  /\ planner.pc = "loop"
  /\ ~(Len(planner.times) < planner.frameCount)
  /\ planner' = [planner EXCEPT !.pc = "done"]
  /\ UNCHANGED <<appVars, nearest, analysis, request, standalone, batch>>

NextBatchPlan == BatchPlanPush \/ BatchPlanDone

SpecBatchPlan == InitBatchPlan /\ [][NextBatchPlan]_vars

\* C35: the timestamps extractVideoFrames computes are strictly increasing
\* with the frame index (hence pairwise distinct), non-negative and
\* smaller than the duration.
C35_BatchTimesIncreasingInRange ==
  LET t == planner.times
  IN planner.pc = "done" =>
       /\ \A k \in 1..Len(t) : 0 <= t[k] /\ t[k] < planner.duration
       /\ \A k \in 1..(Len(t) - 1) : t[k] < t[k + 1]

\* C36: reset() of the app extractor leaves isProcessing false, the
\* cancelled flag of the current extraction false, frames and
\* previewFrames empty, and a new video element and a new canvas held.
C36_ResetLeavesFreshIdle ==
  [][Reset =>
       /\ ~extractor'.isProcessing
       /\ ~extractor'.currentExtraction.cancelled
       /\ extractor'.frames = <<>>
       /\ extractor'.previewFrames = <<>>
       /\ extractor'.video = NewVideo
       /\ extractor'.canvas = "canvas"
       /\ extractor'.ctx = "ctx"]_vars

\* ============================================================ the page ===
\* analyzeFile of src/public/js/main.js with its callers (the click
\* handler of the analyze button, the onsubmit of the email form), the
\* loading overlay and its cancel button, processVideoFile, and the frame
\* extractor seen from the page: an extraction that reports progress and
\* then completes or fails, and that stops when cancel() is called.  Every
\* action is one task of the page with the promise reactions it triggers.

MaxAnalyses == 2
Analyses == 1..MaxAnalyses
\* the frames an extraction delivers
ExtractedFrames == 2
\* currentFile.type: a video, or anything else
FileKinds == {"video", "other"}

\* processVideoFile called without a signal (the parameter is undefined)
NoSignal == 0

NoInv == [pc |-> "none", aborted |-> FALSE, cancelledAt |-> "none"]
NoExt == [pc |-> "none", signal |-> NoSignal, captured |-> 0,
          cancelCalled |-> FALSE]

InitAnalyze ==
  /\ AppUnused
  /\ planner = NoPlanner
  /\ standalone = NoStandalone
  /\ batch = NoBatch
  /\ nearest = NoNearest
  /\ request = NoRequest
  /\ \E k \in FileKinds, e \in BOOLEAN :
       analysis = [pc |-> "ready", file |-> k, hasEmail |-> e,
                   modal |-> FALSE, isProcessing |-> FALSE,
                   isUploading |-> FALSE, button |-> TRUE,
                   overlay |-> [isVisible |-> FALSE, onCancel |-> 0],
                   n |-> 0, ignored |-> FALSE,
                   inv |-> [a \in Analyses |-> NoInv],
                   ext |-> [a \in Analyses |-> NoExt]]

\* analyzeFile invocation a has started and has not finished
Running(A, a) == A.inv[a].pc \notin {"none", "done"}

\* loadingOverlay.hide()
hideOverlay(A) == [A EXCEPT !.overlay.isVisible = FALSE]

\* loadingOverlay.show(title, message, onCancel) with the cancel handler of
\* invocation a: nothing happens when the overlay is visible
showOverlay(A, a) ==
  IF A.overlay.isVisible THEN A
  ELSE [A EXCEPT !.overlay = [isVisible |-> TRUE, onCancel |-> a]]

\* the catch block and the finally block of analyzeFile, lines 1180-1196
analysisFailed(A, a) ==
  [hideOverlay(A) EXCEPT !.inv[a].pc = "done", !.isProcessing = FALSE]

\* the end of the try block and the finally block, lines 1168-1196
analysisSucceeded(A, a) ==
  [hideOverlay(A) EXCEPT !.inv[a].pc = "done", !.isProcessing = FALSE]

\* processVideoFile(file, signal) called by invocation a, lines 965-1031:
\* cleanup() and reset() cancel the extraction under way, the observers
\* are replaced, the abort listener is added if a signal was passed
processVideoFile(A, a, signal) ==
  [A EXCEPT !.isUploading = TRUE,
            !.button = FALSE,
            !.ext = [b \in Analyses |->
                       IF b = a
                       THEN [NoExt EXCEPT !.pc = "running", !.signal = signal]
                       ELSE IF @[b].pc = "running"
                       THEN [@[b] EXCEPT !.pc = "replaced",
                                         !.cancelCalled = TRUE]
                       ELSE @[b]]]

\* processVideoFile(currentFile), line 1090: no signal is passed
processCurrentFile(A, a) == processVideoFile(A, a, NoSignal)

\* analyzeFile(), lines 1044-1090 and 1141-1149, up to its first await
analyzeFile(A) ==
  IF A.isProcessing
  THEN [A EXCEPT !.ignored = TRUE]
  ELSE LET a == A.n + 1
           A1 == showOverlay([A EXCEPT !.n = a, !.isProcessing = TRUE], a)
       IN IF A.file = "video"
          THEN processCurrentFile([A1 EXCEPT !.inv[a].pc = "extracting"], a)
          ELSE [A1 EXCEPT !.inv[a].pc = "delay"]

\* the upload loop over the frames from index i on, lines 1101-1140, up to
\* its await (every third frame); then the 200 ms delay
uploadFrames(A, a, i) ==
  IF A.inv[a].aborted
  THEN analysisFailed(A, a)
  ELSE IF i = 0
  THEN [A EXCEPT !.inv[a].pc = "uploadYield"]
  ELSE [A EXCEPT !.inv[a].pc = "delay"]

\* the abort event of invocation a's controller
abortAnalysis(A, a) ==
  LET A1 == [A EXCEPT !.inv[a].aborted = TRUE,
                      !.inv[a].cancelledAt =
                         IF @ = "none" THEN A.inv[a].pc ELSE @]
      \* the abort listener of processVideoFile, lines 1009-1017
      A2 == IF A1.ext[a].pc = "running" /\ A1.ext[a].signal = a
            THEN [hideOverlay(A1) EXCEPT !.ext[a].pc = "cancelled",
                                         !.ext[a].cancelCalled = TRUE,
                                         !.isUploading = FALSE,
                                         !.button = TRUE]
            ELSE A1
  IN \* the pending promise rejects: processVideoFile's, or fetch's
     IF (A2.inv[a].pc = "extracting" /\ A2.ext[a].pc = "cancelled")
          \/ A2.inv[a].pc = "fetching"
     THEN analysisFailed(A2, a)
     ELSE A2

\* the click handler of the analyze button, lines 743-851
AnalyzeClick ==
  /\ analysis.button /\ ~analysis.isUploading
  /\ analysis.n < MaxAnalyses
  /\ analysis' = IF analysis.hasEmail
                 THEN analyzeFile(analysis)
                 ELSE [analysis EXCEPT !.modal = TRUE]
  /\ UNCHANGED <<appVars, nearest, request, planner, standalone, batch>>

\* modalForm.onsubmit with a valid address, lines 806-838
EmailSubmit ==
  /\ analysis.modal
  /\ analysis.n < MaxAnalyses
  /\ analysis' = analyzeFile([analysis EXCEPT !.hasEmail = TRUE,
                                              !.modal = FALSE])
  /\ UNCHANGED <<appVars, nearest, request, planner, standalone, batch>>

\* the cancel button of the overlay: handleCancel, lines 347-352, with the
\* cancel handler of analyzeFile, lines 1071-1077
CancelClick ==
  /\ analysis.overlay.isVisible
  /\ LET a == analysis.overlay.onCancel
         A1 == IF a = 0 THEN analysis
               ELSE [hideOverlay(abortAnalysis(analysis, a))
                       EXCEPT !.isProcessing = FALSE]
     IN analysis' = hideOverlay(A1)
  /\ UNCHANGED <<appVars, nearest, request, planner, standalone, batch>>

\* the extractor reports a frame: onProgress, lines 982-987
ExtractionProgress(a) ==
  /\ analysis.ext[a].pc = "running"
  /\ analysis.ext[a].captured < ExtractedFrames
  /\ analysis' = [analysis EXCEPT !.ext[a].captured = @ + 1]
  /\ UNCHANGED <<appVars, nearest, request, planner, standalone, batch>>

\* the extractor completes: onComplete, lines 1000-1007, and analyzeFile
\* from line 1092 to the first await of the upload loop
ExtractionComplete(a) ==
  /\ analysis.ext[a].pc = "running"
  /\ analysis.ext[a].captured = ExtractedFrames
  /\ analysis' = uploadFrames([analysis EXCEPT !.ext[a].pc = "complete",
                                               !.isUploading = FALSE,
                                               !.button = TRUE], a, 0)
  /\ UNCHANGED <<appVars, nearest, request, planner, standalone, batch>>

\* the extractor fails: onError, lines 990-997, and the catch of analyzeFile
ExtractionError(a) ==
  /\ analysis.ext[a].pc = "running"
  /\ analysis' = analysisFailed(
                   hideOverlay([analysis EXCEPT !.ext[a].pc = "failed",
                                                !.isUploading = FALSE,
                                                !.button = TRUE]), a)
  /\ UNCHANGED <<appVars, nearest, request, planner, standalone, batch>>

\* the setTimeout(0) of the upload loop, line 1138
UploadYield(a) ==
  /\ analysis.inv[a].pc = "uploadYield"
  /\ analysis' = uploadFrames(analysis, a, 1)
  /\ UNCHANGED <<appVars, nearest, request, planner, standalone, batch>>

\* the 200 ms delay, line 1152, then fetch(endpoint, {signal}): an aborted
\* signal rejects at once
UploadDelay(a) ==
  /\ analysis.inv[a].pc = "delay"
  /\ analysis' = IF analysis.inv[a].aborted
                 THEN analysisFailed(analysis, a)
                 ELSE [analysis EXCEPT !.inv[a].pc = "fetching"]
  /\ UNCHANGED <<appVars, nearest, request, planner, standalone, batch>>

\* the response arrives (or the request fails), lines 1154-1171
FetchSettled(a) ==
  /\ analysis.inv[a].pc = "fetching"
  /\ \E ok \in BOOLEAN :
       analysis' = IF ok
                   THEN [analysis EXCEPT !.inv[a].pc = "showing"]
                   ELSE analysisFailed(analysis, a)
  /\ UNCHANGED <<appVars, nearest, request, planner, standalone, batch>>

\* the 500 ms delay at 100 %, line 1171, and the rest of analyzeFile
ResultsShown(a) ==
  /\ analysis.inv[a].pc = "showing"
  /\ analysis' = analysisSucceeded(analysis, a)
  /\ UNCHANGED <<appVars, nearest, request, planner, standalone, batch>>

NextAnalyze ==
  \/ AnalyzeClick
  \/ EmailSubmit
  \/ CancelClick
  \/ \E a \in Analyses : ExtractionProgress(a)
  \/ \E a \in Analyses : ExtractionComplete(a)
  \/ \E a \in Analyses : ExtractionError(a)
  \/ \E a \in Analyses : UploadYield(a)
  \/ \E a \in Analyses : UploadDelay(a)
  \/ \E a \in Analyses : FetchSettled(a)
  \/ \E a \in Analyses : ResultsShown(a)

SpecAnalyze == InitAnalyze /\ [][NextAnalyze]_vars

\* C37: at most one invocation of analyzeFile is in flight at any time: no
\* invocation starts while an earlier one has not finished.
C37_OneAnalysisInFlight ==
  Cardinality({a \in Analyses : Running(analysis, a)}) <= 1

\* C38: when the user cancels an analysis whose frames are being
\* extracted, cancel() of the extractor is called for that extraction, and
\* the extraction reports no progress afterwards.
C38_CancelReachesExtractor ==
  [][\A a \in Analyses :
       /\ (analysis.inv[a].cancelledAt = "none"
             /\ analysis'.inv[a].cancelledAt = "extracting") =>
            analysis'.ext[a].cancelCalled
       /\ analysis.inv[a].cancelledAt = "extracting" =>
            analysis'.ext[a].captured = analysis.ext[a].captured]_vars

\* ===================================================== POST /api/analyze ===
\* One request to POST /api/analyze of src/server/index.js: multer's
\* upload.single('file') with the fileFilter, the handler up to its await,
\* the completion of the OpenAI call, and the fs.unlink of cleanupFile.

\* file.mimetype, split at the slash
Mime(t, sub) == [type |-> t, subtype |-> sub]
DocxMime ==
  Mime("application",
       "vnd.openxmlformats-officedocument.wordprocessingml.document")
UploadMimes ==
  {Mime("text", "plain"), Mime("application", "pdf"), Mime("image", "png"),
   Mime("video", "mp4"), DocxMime, Mime("application", "zip")}
\* path.extname(file.originalname).toLowerCase()
UploadExtensions == {".txt", ".pdf", ".png", ".mp4", ".docx", ".exe"}

\* the filetypes pattern of the fileFilter, lines 64-65
extnameAccepted(ext) ==
  ext \in {".jpg", ".jpeg", ".png", ".gif", ".mp4", ".mov", ".avi", ".webm",
           ".mkv", ".pdf", ".docx", ".txt"}

\* the mimetypes list of the fileFilter, lines 68-80
mimetypeAccepted(m) ==
  \/ m.type = "image"
  \/ m.type = "video"
  \/ m = Mime("application", "pdf")
  \/ m = DocxMime
  \/ m = Mime("text", "plain")

\* fileFilter, lines 61-96
fileFilter(ext, m) == extnameAccepted(ext) /\ mimetypeAccepted(m)

NoUpload == [ext |-> "", mimetype |-> Mime("", ""), oversize |-> FALSE,
             readable |-> FALSE]

InitRequest ==
  /\ AppUnused
  /\ planner = NoPlanner
  /\ standalone = NoStandalone
  /\ batch = NoBatch
  /\ nearest = NoNearest
  /\ analysis = NoAnalysis
  /\ \E part \in
         {NoUpload} \cup
         [ext : UploadExtensions, mimetype : UploadMimes,
          oversize : BOOLEAN, readable : BOOLEAN] :
       request = [pc |-> "arrived", part |-> part, file |-> "undefined",
                  stored |-> FALSE, responses |-> <<>>, cleanups |-> 0,
                  unlinking |-> 0, unlinkErrors |-> 0]

\* res.status(code).json(...)
respond(R, code) == [R EXCEPT !.responses = Append(@, code)]

\* cleanupFile(req.file), lines 127-138: fs.unlink is started
cleanupFile(R) ==
  IF R.file = "undefined" THEN R
  ELSE [R EXCEPT !.cleanups = @ + 1, !.unlinking = @ + 1]

\* the catch block of the handler, lines 614-625
analyzeCatch(R) == [respond(cleanupFile(R), 500) EXCEPT !.pc = "done"]

\* the handler when req.file.mimetype matches neither branch: the try
\* block ends, lines 523-613
analyzeNoBranch(R) == [R EXCEPT !.pc = "done"]

\* the handler from line 487 to its first await or its return
analyzeHandler(R) ==
  LET m == R.part.mimetype IN
  IF R.file = "undefined"
  THEN [respond(R, 400) EXCEPT !.pc = "done"]
  ELSE IF m = Mime("text", "plain") \/ m = Mime("application", "pdf")
  THEN IF R.part.readable THEN [R EXCEPT !.pc = "awaiting"]
       ELSE analyzeCatch(R)
  ELSE IF m.type = "image"
  THEN IF R.part.oversize
       THEN [respond(cleanupFile(R), 400) EXCEPT !.pc = "done"]
       ELSE IF R.part.readable THEN [R EXCEPT !.pc = "awaiting"]
       ELSE analyzeCatch(R)
  ELSE analyzeNoBranch(R)

\* upload.single('file'): the fileFilter, the file on disk, and the
\* errorHandler (lines 149-180) for a rejected file
Upload ==
  /\ request.pc = "arrived"
  /\ request' =
       IF request.part = NoUpload
       THEN [request EXCEPT !.pc = "handler"]
       ELSE IF fileFilter(request.part.ext, request.part.mimetype)
       THEN [request EXCEPT !.pc = "handler", !.file = "file",
                            !.stored = TRUE]
       ELSE [respond(request, 400) EXCEPT !.pc = "done"]
  /\ UNCHANGED <<appVars, nearest, analysis, planner, standalone, batch>>

\* the route handler, lines 487-626, up to its await
AnalyzeRequest ==
  /\ request.pc = "handler"
  /\ request' = analyzeHandler(request)
  /\ UNCHANGED <<appVars, nearest, analysis, planner, standalone, batch>>

\* openai.chat.completions.create settles: it resolves with a completion,
\* resolves with a body without choices, or rejects
OpenAiSettled ==
  /\ request.pc = "awaiting"
  /\ \E outcome \in {"completion", "noChoices", "rejects"} :
       request' =
         CASE outcome = "completion" ->
                [respond(cleanupFile(request), 200) EXCEPT !.pc = "done"]
           [] outcome = "noChoices" -> analyzeCatch(cleanupFile(request))
           [] outcome = "rejects" -> analyzeCatch(request)
  /\ UNCHANGED <<appVars, nearest, analysis, planner, standalone, batch>>

\* the callback of fs.unlink in cleanupFile, lines 131-136
Unlinked ==
  /\ request.unlinking > 0
  /\ request' = [request EXCEPT !.unlinking = @ - 1,
                                !.stored = FALSE,
                                !.unlinkErrors =
                                   IF request.stored THEN @ ELSE @ + 1]
  /\ UNCHANGED <<appVars, nearest, analysis, planner, standalone, batch>>

NextRequest ==
  \/ Upload
  \/ AnalyzeRequest
  \/ OpenAiSettled
  \/ Unlinked

SpecRequest == InitRequest /\ [][NextRequest]_vars

\* C39: a request whose file the upload filter accepted, once its handler
\* has nothing left to wait for, has received exactly one response and has
\* had its uploaded file handed to cleanupFile.
C39_AcceptedRequestAnswered ==
  (request.pc = "done" /\ request.file = "file") =>
     /\ Len(request.responses) = 1
     /\ request.cleanups >= 1

=============================================================================
